---- MODULE Spec2Model ----
(***************************************************************************)
(* A model of the pharmacy rule store of the validator (the rules and      *)
(* filters of the store, the field executor that runs a recipe, the        *)
(* fan-out of `properties`/`items` and the sequential loop of `oneOf`).    *)
(***************************************************************************)
EXTENDS Integers, Sequences, FiniteSets, TLC

VARIABLES
  rule,      \* SpecRule: name of the rule that was called ("" before the call)
  accept,    \* SpecRule: the accepted parameter of the call
  value,     \* SpecRule: the value the rule was called with
  result,    \* SpecRule: what the rule returned
  fpc,       \* SpecField: "idle", "running", "sealed" or "rejected"
  finput,    \* SpecField: the value validate() was called with
  fschema,   \* SpecField: the schema literal validate() was called with
  fidx,      \* SpecField: index of the next rule of the recipe
  fvalue,    \* SpecField: field.value
  report,    \* SpecField: field.report, [value, issues]
  pcall,     \* SpecFan: the call of `properties` or `items`, [rule, accept, value]
  kids,      \* SpecFan: the child Fields of the call, in declaration/index order
  kstatus,   \* SpecFan: per child "none" (skipped), "running", "done" or "failed"
  kreports,  \* SpecFan: the reports the children's promises resolved with
  out,       \* SpecFan: the `out` object or array of the call
  pstatus,   \* SpecFan: "idle", "returned", "waiting", "resolved" or "rejected"
  presult,   \* SpecFan: what the call returned or resolved with
  finished,  \* SpecFan: the children in the order they completed
  ocall,     \* SpecOneOf: the call of `oneOf`, [alts, value] as the caller gave them
  oheap,     \* SpecOneOf: the lists, [caller |-> the caller's, copy |-> the sliced one]
  oaccept,   \* SpecOneOf: which list the local `accept` refers to
  ostarted,  \* SpecOneOf: the alternatives whose validation was started, in order
  oinflight, \* SpecOneOf: indices in ostarted of the validations in flight
  oreports,  \* SpecOneOf: the reports known so far
  ostatus,   \* SpecOneOf: "idle", "awaiting", "settled" or "rejected"
  oresult    \* SpecOneOf: what the rule returned or resolved with

ruleVars == <<rule, accept, value, result>>
fieldVars == <<fpc, finput, fschema, fidx, fvalue, report>>
fanVars == <<pcall, kids, kstatus, kreports, out, pstatus, presult, finished>>
oneOfVars == <<ocall, oheap, oaccept, ostarted, oinflight, oreports, ostatus, oresult>>
vars == <<ruleVars, fieldVars, fanVars, oneOfVars>>

(***************************************************************************)
(* Bounds of the model.                                                    *)
(***************************************************************************)
MaxStrLen == 3      \* longest string value
MaxNum == 3         \* numbers range over -1 .. MaxNum
MaxNames == 2       \* longest list of names given to `required`

(***************************************************************************)
(* JavaScript values, tagged by runtime kind.  A string is the sequence    *)
(* of its characters; an object has own properties and properties found   *)
(* on its prototype chain.                                                 *)
(***************************************************************************)
Undefined == [k |-> "undefined"]
Null == [k |-> "null"]
Bool(b) == [k |-> "boolean", b |-> b]
Num(n) == [k |-> "number", n |-> n]
Str(s) == [k |-> "string", s |-> s]
Arr(items) == [k |-> "array", items |-> items]
\* a string used as a property name, and an array of such strings
Name(name) == [k |-> "string", name |-> name]
NameList(names) == [k |-> "array", names |-> names]
Obj(own, proto) == [k |-> "object", own |-> own, proto |-> proto]
RegExpOf(source, flags) == [k |-> "regexp", source |-> source, flags |-> flags]
\* a zero-argument producer, and its call
Producer(v) == [k |-> "function", returns |-> v]
CallProducer(f) == f.returns
NoProps == [n \in {} |-> Undefined]
Plain(own) == Obj(own, NoProps)

\* typeof value
TypeOf(v) ==
  CASE v.k = "undefined" -> "undefined"
    [] v.k = "boolean" -> "boolean"
    [] v.k = "number" -> "number"
    [] v.k = "string" -> "string"
    [] v.k = "function" -> "function"
    [] OTHER -> "object"

\* !value
Falsy(v) ==
  \/ v.k \in {"undefined", "null"}
  \/ v.k = "boolean" /\ ~v.b
  \/ v.k = "number" /\ v.n = 0
  \/ v.k = "string" /\ v = Str(<<>>)

\* _.has(value, name): own properties only
Has(v, name) == v.k = "object" /\ name \in DOMAIN v.own

\* value[name]: own property, else the prototype chain, else undefined
Get(v, name) ==
  IF v.k # "object" THEN Undefined
  ELSE IF name \in DOMAIN v.own THEN v.own[name]
  ELSE IF name \in DOMAIN v.proto THEN v.proto[name]
  ELSE Undefined

\* _.keys(value): own enumerable keys
Keys(v) ==
  IF v.k = "object" THEN DOMAIN v.own
  ELSE IF v.k = "array" THEN {ToString(i - 1) : i \in 1..Len(v.items)}
  ELSE {}

(***************************************************************************)
(* Characters and strings.                                                 *)
(***************************************************************************)
Chars == {" ", "a", "A", "0", "1", "-"}
Whitespace == {" "}
Digits == {"0", "1"}
HexChars == {"a", "A", "0", "1"}
AlphaNum == {"a", "A", "0", "1"}

RECURSIVE TrimStart(_)
TrimStart(s) ==
  IF s # <<>> /\ Head(s) \in Whitespace THEN TrimStart(Tail(s)) ELSE s

RECURSIVE TrimEnd(_)
TrimEnd(s) ==
  IF s # <<>> /\ s[Len(s)] \in Whitespace
  THEN TrimEnd(SubSeq(s, 1, Len(s) - 1)) ELSE s

\* String.prototype.trim
Trim(s) == TrimEnd(TrimStart(s))

\* String.prototype.toLowerCase
ToLowerCase(s) == [i \in 1..Len(s) |-> (IF s[i] = "A" THEN "a" ELSE s[i])]
\* String.prototype.toUpperCase
ToUpperCase(s) == [i \in 1..Len(s) |-> (IF s[i] = "a" THEN "A" ELSE s[i])]

Keep(s, set) == SelectSeq(s, LAMBDA c : c \in set)

(***************************************************************************)
(* Outcomes of a rule call.                                                *)
(***************************************************************************)
Pass == [t |-> "true"]
Fail == [t |-> "false"]
Detail(d) == [t |-> "detail", d |-> d]
IssueList(list) == [t |-> "issues", list |-> list]
Thrown == [k |-> "throw"]
FromBool(b) == IF b THEN Pass ELSE Fail

(***************************************************************************)
(* Field capabilities (store.field).                                       *)
(***************************************************************************)
isString(v) == TypeOf(v) = "string"
isBool(v) == TypeOf(v) = "boolean"
isNumber(v) == TypeOf(v) = "number"
isObject(v) == TypeOf(v) = "object"
isArray(v) == v.k = "array"
isNull(v) == v.k = "null"
isUndefined(v) == TypeOf(v) = "undefined"

(***************************************************************************)
(* The identifier collaborator (mongodb's ObjectId).                       *)
(***************************************************************************)
IdHexLen == 2       \* stands for the 24 hex characters of an identifier

\* ObjectId.isValid(value)
isValidId(v) ==
  \/ v.k \in {"number", "objectId"}
  \/ v.k = "string" /\ Len(v.s) = IdHexLen /\ \A i \in 1..Len(v.s) : v.s[i] \in HexChars

\* ObjectId(value)
toId(v) == [k |-> "objectId", of |-> v]

(***************************************************************************)
(* Validators (store.rules).                                               *)
(***************************************************************************)
\* type(accept, value, field)
type(acc, v) ==
  IF TypeOf(v) = "undefined" THEN Pass
  ELSE LET res ==
             CASE acc.name = "object" -> isObject(v) \/ isNull(v)
               [] acc.name = "array" -> isArray(v)
               [] acc.name = "string" -> isString(v) \/ isNull(v)
               [] acc.name = "objectId" -> v = Null \/ isValidId(v)
               [] acc.name = "date" -> v = Str(<<>>) \/ v = Null \/ v.k = "date"
               [] OTHER -> TypeOf(v) = acc.name
       IN IF ~res THEN Detail([value |-> v, accept |-> acc, current |-> TypeOf(v)])
          ELSE Pass

\* the issue pushed for a missed name
Missed(name) ==
  [path |-> Name(name), accept |-> TRUE, current |-> FALSE, value |-> Undefined]

requiredIgnoresEmpty(acc, v) ==
  IF Falsy(acc) \/ isNull(v) THEN Pass
  ELSE IF ~isObject(v) THEN Fail
  ELSE IssueList(
         LET hit(name) == Has(v, name)
             RECURSIVE walk(_)
             walk(names) ==
               IF names = <<>> THEN <<>>
               ELSE (IF hit(Head(names)) THEN <<>> ELSE <<Missed(Head(names))>>)
                    \o walk(Tail(names))
         IN walk(acc.names))

\* required(accept, value, field)
required(acc, v) ==
  IF Falsy(acc) \/ isNull(v) THEN Pass
  ELSE IF ~isObject(v) THEN Fail
  ELSE IssueList(
         LET hit(name) == Has(v, name) /\ Get(v, name) # Str(<<>>) /\ Get(v, name) # Null
             RECURSIVE walk(_)
             walk(names) ==
               IF names = <<>> THEN <<>>
               ELSE (IF hit(Head(names)) THEN <<>> ELSE <<Missed(Head(names))>>)
                    \o walk(Tail(names))
         IN walk(acc.names))

\* value.length of a string or an array
LengthOf(v) == IF v.k = "string" THEN Len(v.s) ELSE Len(v.items)

\* length(accept, value, field)
length(acc, v) ==
  IF ~isString(v) /\ ~isArray(v) THEN Fail
  ELSE FromBool(LengthOf(v) = acc.n)

\* minLength(accept, value, field)
minLength(acc, v) ==
  IF ~isString(v) /\ ~isArray(v) THEN Fail
  ELSE LET w == IF isString(v) THEN Str(Trim(v.s)) ELSE v
       IN FromBool(LengthOf(w) >= acc.n)

\* maxLength(accept, value, field)
maxLength(acc, v) ==
  IF ~isString(v) /\ ~isArray(v) THEN Fail
  ELSE LET w == IF isString(v) THEN Str(Trim(v.s)) ELSE v
       IN FromBool(LengthOf(w) <= acc.n)

\* _.isObject(value)
LodashIsObject(v) == v.k \in {"object", "array", "objectId", "regexp", "date"}

\* the elements of a sequence
Range(q) == {q[i] : i \in 1..Len(q)}

\* langMap(allowedLangs, value, field)
langMap(allowedLangs, v) ==
  IF ~LodashIsObject(v) THEN Pass
  ELSE FromBool(\E lang \in Keys(v) :
                  lang \in Range(allowedLangs.names \o <<"default">>))

(***************************************************************************)
(* Filters (store.rules.<name>.filter).  A filter returns a value, or      *)
(* Thrown when the call raises a TypeError.                                *)
(***************************************************************************)
\* Number(value) of a primitive, as the relational operators convert it;
\* NaN is [nan |-> TRUE]
NaN == [nan |-> TRUE, n |-> 0]
Number(n) == [nan |-> FALSE, n |-> n]

RECURSIVE DigitsValue(_)
DigitsValue(s) ==
  IF s = <<>> THEN 0
  ELSE 10 * DigitsValue(SubSeq(s, 1, Len(s) - 1)) + (IF s[Len(s)] = "1" THEN 1 ELSE 0)

StringToNumber(s) ==
  LET t == Trim(s)
      neg == t # <<>> /\ Head(t) = "-"
      d == IF neg THEN Tail(t) ELSE t
  IN IF t = <<>> THEN Number(0)
     ELSE IF d # <<>> /\ \A i \in 1..Len(d) : d[i] \in Digits
     THEN Number(IF neg THEN 0 - DigitsValue(d) ELSE DigitsValue(d))
     ELSE NaN

ToNumber(v) ==
  CASE v.k = "number" -> Number(v.n)
    [] v.k = "null" -> Number(0)
    [] v.k = "boolean" -> Number(IF v.b THEN 1 ELSE 0)
    [] v.k = "string" -> StringToNumber(v.s)
    [] OTHER -> NaN

\* a < b and a >= b of a value and a number
LessThan(v, n) == ~ToNumber(v).nan /\ ToNumber(v).n < n
AtLeast(v, n) == ~ToNumber(v).nan /\ ToNumber(v).n >= n

boundsNoLowerClamp(acc, v) ==
  IF AtLeast(v, acc.items[2].n) THEN acc.items[2] ELSE v

\* bounds.filter(accept, value, field); accept is <<min, max>>
bounds(acc, v) ==
  IF LessThan(v, acc.items[1].n) THEN acc.items[1]
  ELSE IF AtLeast(v, acc.items[2].n) THEN acc.items[2]
  ELSE v

\* forceValue.filter
forceValue(acc, v) == IF ~Falsy(Get(acc, "isEnabled")) THEN Get(acc, "value") ELSE v

\* default.filter
default(acc, v) ==
  IF TypeOf(v) = "undefined"
  THEN IF TypeOf(acc) = "function" THEN CallProducer(acc) ELSE acc
  ELSE v

\* trim.filter
trim(acc, v) == IF isString(v) THEN Str(Trim(v.s)) ELSE v

\* toLowerCase.filter
toLowerCase(acc, v) == IF isString(v) THEN Str(ToLowerCase(v.s)) ELSE v

\* toUpperCase.filter
toUpperCase(acc, v) == IF isString(v) THEN Str(ToUpperCase(v.s)) ELSE v

\* toBoolean.filter
toBoolean(acc, v) ==
  IF isString(v)
  THEN LET low == ToLowerCase(v.s)
       IN IF low \in {<<"y", "e", "s">>, <<"t", "r", "u", "e">>, <<"y">>, <<"1">>}
          THEN Bool(TRUE)
          ELSE IF low \in {<<"n", "o">>, <<"f", "a", "l", "s", "e">>, <<"n">>, <<"0">>}
          THEN Bool(FALSE)
          ELSE v
  ELSE v

RECURSIVE SplitFrom(_, _, _)
SplitFrom(s, sep, cur) ==
  IF Len(s) < Len(sep) THEN <<Str(cur \o s)>>
  ELSE IF Len(sep) <= Len(s) /\ SubSeq(s, 1, Len(sep)) = sep
  THEN <<Str(cur)>> \o SplitFrom(SubSeq(s, Len(sep) + 1, Len(s)), sep, <<>>)
  ELSE SplitFrom(Tail(s), sep, cur \o <<Head(s)>>)

\* String.prototype.split with a string separator
Split(s, sep) ==
  IF sep = <<>> THEN [i \in 1..Len(s) |-> Str(<<s[i]>>)]
  ELSE SplitFrom(s, sep, <<>>)

\* toArray.filter (a string separator, or the comma)
toArray(acc, v) ==
  IF isString(v)
  THEN IF TypeOf(acc) = "string" THEN Arr(Split(v.s, acc.s))
       ELSE Arr(Split(v.s, <<",">>))
  ELSE v

\* toRegexp.filter
toRegexp(acc, v) ==
  IF TypeOf(v) # "string" THEN v
  ELSE IF TypeOf(acc) = "object" /\ ~Falsy(Get(acc, "fromStart"))
  THEN RegExpOf(<<"^">> \o v.s, "i")
  ELSE RegExpOf(v.s, "i")

toObjectIdKeepsString(acc, v) == v

\* toObjectId.filter
toObjectId(acc, v) == IF isValidId(v) THEN toId(v) ELSE v

\* utils.clearPhone: phone.replace(/[^\d+]/gi, '').trim()
utilsClearPhone(s) == Trim(Keep(s, Digits \cup {"+"}))

\* clearPhone.filter
clearPhone(acc, v) ==
  IF TypeOf(v) # "string" THEN Undefined
  ELSE Str(utilsClearPhone(v.s))

\* clearFormField.filter: value.replace(/[^a-zA-Z0-9]+/g, '')
clearFormField(acc, v) ==
  IF TypeOf(v) # "string" THEN Thrown
  ELSE Str(Keep(v.s, AlphaNum))

RECURSIVE Uniq(_)
\* _.uniq(array): the first occurrence of each item
Uniq(items) ==
  IF items = <<>> THEN <<>>
  ELSE LET init == Uniq(SubSeq(items, 1, Len(items) - 1))
           last == items[Len(items)]
       IN IF \E i \in 1..Len(init) : init[i] = last THEN init ELSE Append(init, last)

\* uniqueItems.filter
uniqueItems(acc, v) == IF ~isArray(v) THEN v ELSE Arr(Uniq(v.items))

\* langMapDefault.filter
langMapDefault(defaultLocale, v) ==
  IF v.k = "null" THEN Thrown
  ELSE IF v.k = "object" /\ ~Falsy(Get(v, "default"))
  THEN [v EXCEPT !.own =
          [n \in DOMAIN v.own \cup {defaultLocale.name} |->
             IF n = defaultLocale.name
             THEN (IF Falsy(Get(v, defaultLocale.name)) THEN Get(v, "default")
                   ELSE Get(v, defaultLocale.name))
             ELSE v.own[n]]]
  ELSE v

(***************************************************************************)
(* Inputs of the rule calls.                                               *)
(***************************************************************************)
RECURSIVE SeqsUpTo(_, _)
\* the sequences over set of length at most n
SeqsUpTo(set, n) ==
  IF n = 0 THEN {<<>>}
  ELSE LET shorter == SeqsUpTo(set, n - 1)
       IN shorter \cup {Append(q, x) : q \in shorter, x \in set}

Primitives ==
  {Undefined, Null, Bool(TRUE), Bool(FALSE)} \cup {Num(n) : n \in (0 - 1)..MaxNum}
    \cup {Str(q) : q \in SeqsUpTo(Chars, MaxStrLen)}

Names == {"a", "b"}
\* the property maps over some of the names
Props(names, values) == UNION {[d -> values] : d \in SUBSET names}
Objects ==
  {Obj(own, proto) : own \in Props(Names, {Str(<<>>), Null, Undefined, Num(1), Str(<<"a">>)}), proto \in Props(Names, {Str(<<>>), Num(1)})}
Arrays == {Arr(q) : q \in SeqsUpTo({Num(0), Num(1), Str(<<"a">>), Null}, 2)}
Values == Primitives \cup Objects \cup Arrays \cup {toId(Str(<<"a", "1">>)), RegExpOf(<<"a">>, "i")}

Langs == {"en", "ru"}
LangMaps == {Plain(own) : own \in Props(Langs \cup {"zz", "default"}, {Str(<<"a">>), Str(<<>>)})}

FilterNames ==
  {"forceValue", "default", "trim", "toLowerCase", "toUpperCase", "toBoolean",
   "toArray", "toRegexp", "toObjectId", "clearPhone", "clearFormField",
   "uniqueItems", "langMapDefault"}

\* the parameters a filter is called with
FilterAccepts(name) ==
  CASE name = "forceValue" ->
         {Plain([isEnabled |-> Bool(e), value |-> w]) : e \in BOOLEAN, w \in {Null, Num(0)}}
    [] name = "default" -> {Num(0), Null, Producer(Num(1))}
    [] name = "toArray" -> {Bool(TRUE), Str(<<"-">>), Str(<<>>)}
    [] name = "toRegexp" ->
         {Bool(TRUE), Plain([n \in {"fromStart"} |-> Bool(TRUE)])}
    [] name = "langMapDefault" -> {Name("a")}
    [] OTHER -> {Bool(TRUE)}

\* the filter of the named rule
ApplyFilter(name, acc, v) ==
  CASE name = "forceValue" -> forceValue(acc, v)
    [] name = "default" -> default(acc, v)
    [] name = "trim" -> trim(acc, v)
    [] name = "toLowerCase" -> toLowerCase(acc, v)
    [] name = "toUpperCase" -> toUpperCase(acc, v)
    [] name = "toBoolean" -> toBoolean(acc, v)
    [] name = "toArray" -> toArray(acc, v)
    [] name = "toRegexp" -> toRegexp(acc, v)
    [] name = "toObjectId" -> toObjectId(acc, v)
    [] name = "clearPhone" -> clearPhone(acc, v)
    [] name = "clearFormField" -> clearFormField(acc, v)
    [] name = "uniqueItems" -> uniqueItems(acc, v)
    [] name = "langMapDefault" -> langMapDefault(acc, v)
    [] name = "bounds" -> bounds(acc, v)

(***************************************************************************)
(* Schema literals and recipes.  A schema literal is the ordered list of   *)
(* its rule entries; `properties` accepts an ordered list of named schema  *)
(* literals, `items` one schema literal, `oneOf` a list of them.           *)
(***************************************************************************)
Rule(name, acc) == [rule |-> name, accept |-> acc]
Schema(rules) == [k |-> "object", rules |-> rules]
Prop(name, schema) == [name |-> name, schema |-> schema]
PropsOf(props) == [k |-> "object", props |-> props]
AltsOf(alts) == [k |-> "array", alts |-> alts]

\* name in literal
In(name, schema) == \E i \in 1..Len(schema.rules) : schema.rules[i].rule = name
\* literal[name]
Entry(schema, name) ==
  schema.rules[CHOOSE i \in 1..Len(schema.rules) : schema.rules[i].rule = name].accept

\* pharmacy.Recipe.to(literal): the rules in the order declared
RecipeTo(schema) == schema.rules

(***************************************************************************)
(* The field executor of pharmacy (Field.validate): runs the rules of a    *)
(* recipe in order; a filter replaces the value, a validator's outcome     *)
(* becomes issues.  The promise is rejected when a rule raises or when     *)
(* the store has no rule of that name.                                     *)
(***************************************************************************)
StoreFilters == FilterNames \cup {"bounds"}
StoreValidators ==
  {"type", "required", "length", "minLength", "maxLength", "langMap",
   "properties", "items", "oneOf"}

Rejected == [t |-> "rejected"]
Composite(list, o) == [t |-> "composite", list |-> list, out |-> o]

Resolved(v, issues) == [status |-> "resolved", value |-> v, issues |-> issues]
\* the null a skipped property leaves among the promises
NullReport == [status |-> "null", value |-> Undefined, issues |-> <<>>]

\* report.hasIssues()
hasIssues(rep) == rep.issues # <<>>

\* path.concat(other): other is an array of segments, or one string
Concat(path, other) ==
  IF other.k = "array" THEN Arr(path \o other.items) ELSE Arr(Append(path, other))

\* an issue a rule returned in a list, taken over by the field at path
Rebase(path, name, issue) ==
  IF "rule" \in DOMAIN issue
  THEN [issue EXCEPT !.path = Concat(path, issue.path)]
  ELSE [path |-> Concat(path, issue.path), rule |-> name, detail |-> issue]

\* the issues an outcome of rule name adds to the report of the field at path
IssuesOf(path, name, o) ==
  CASE o.t \in {"true", "undefined"} -> <<>>
    [] o.t = "false" -> <<[path |-> Arr(path), rule |-> name, detail |-> Undefined]>>
    [] o.t = "detail" -> <<[path |-> Arr(path), rule |-> name, detail |-> o.d]>>
    [] o.t \in {"issues", "composite"} ->
         [i \in 1..Len(o.list) |-> Rebase(path, name, o.list[i])]

\* the child Field spawned for a property, or none
Child(path, v, schema) == [spawn |-> TRUE, path |-> path, value |-> v, schema |-> schema]
NoChild == [spawn |-> FALSE, path |-> <<>>, value |-> Undefined, schema |-> Schema(<<>>)]

childOfEveryDeclared(prop, v) ==
  Child(<<Name(prop.name)>>, Get(v, prop.name), prop.schema)

\* properties: the callback mapped over the declared names, up to the
\* construction of the child Field
childOf(prop, v) ==
  IF ~Has(v, prop.name)
  THEN IF Get(v, prop.name) = Str(<<>>) /\ In("acceptEmpty", prop.schema)
       THEN Child(<<Name(prop.name)>>, Get(v, prop.name), prop.schema)
       ELSE IF In("default", prop.schema)
       THEN IF TypeOf(Entry(prop.schema, "default")) = "function"
            THEN Child(<<Name(prop.name)>>, CallProducer(Entry(prop.schema, "default")),
                       prop.schema)
            ELSE Child(<<Name(prop.name)>>, Entry(prop.schema, "default"), prop.schema)
       ELSE NoChild
  ELSE Child(<<Name(prop.name)>>, Get(v, prop.name), prop.schema)

\* items: the child Field of the element at index i (from 0)
itemChild(acc, v, i) == Child(<<Num(i)>>, v.items[i + 1], acc)

RECURSIVE FlattenFrom(_, _)
FlattenFrom(reports, i) ==
  IF i > Len(reports) THEN <<>>
  ELSE (IF reports[i].status = "resolved" /\ hasIssues(reports[i])
        THEN reports[i].issues ELSE <<>>) \o FlattenFrom(reports, i + 1)

\* "Flatten report's issues": the reduce over the reports, in their order
flatten(reports) == FlattenFrom(reports, 1)

\* out[name] = report.value, out[i] = report.value
writeOut(o, key, v) ==
  IF o.k = "array" THEN [o EXCEPT !.items[key.n + 1] = v]
  ELSE [o EXCEPT !.own = [n \in DOMAIN o.own \cup {key.name} |->
                            IF n = key.name THEN v ELSE o.own[n]]]

RECURSIVE WriteAll(_, _, _, _)
\* out once the children from i on have written their values
WriteAll(o, children, reports, i) ==
  IF i > Len(children) THEN o
  ELSE WriteAll(IF children[i].spawn /\ reports[i].status = "resolved"
                THEN writeOut(o, children[i].path[1], reports[i].value) ELSE o,
                children, reports, i + 1)

\* new Array(n): every element is a hole until a child writes it
NewArray(n) == Arr([i \in 1..n |-> [k |-> "empty"]])

promiseAllIgnoresPending(statuses) ==
  IF \E i \in 1..Len(statuses) : statuses[i] = "failed" THEN "rejected"
  ELSE IF statuses = <<>> \/ \E i \in 1..Len(statuses) : statuses[i] \in {"none", "done"}
  THEN "fulfilled"
  ELSE "pending"

\* Promise.all(promises): rejected with the first rejection, fulfilled once
\* every promise is (a null among them counts as fulfilled)
promiseAll(statuses) ==
  IF \E i \in 1..Len(statuses) : statuses[i] = "failed" THEN "rejected"
  ELSE IF \A i \in 1..Len(statuses) : statuses[i] \in {"none", "done"} THEN "fulfilled"
  ELSE "pending"

\* the status of a child whose promise settled with rep
Settled(rep) ==
  CASE rep.status = "null" -> "none"
    [] rep.status = "resolved" -> "done"
    [] rep.status = "rejected" -> "failed"

Pending == [t |-> "pending"]

\* properties: the guards before any child is made
propertiesEarly(v) ==
  IF isNull(v) THEN Pass
  ELSE IF ~isObject(v) THEN Fail
  ELSE Pending

\* properties: the child Fields, one per declared name (or none)
propertiesKids(acc, v) == [i \in 1..Len(acc.props) |-> childOf(acc.props[i], v)]

\* items: the guard before any child is made
itemsEarly(v) == IF ~isArray(v) THEN Fail ELSE Pending

\* items: the child Fields, one per element
itemsKids(acc, v) == [i \in 1..Len(v.items) |-> itemChild(acc, v, i - 1)]

\* what the call resolves with once Promise.all is fulfilled
joined(reports, o) == Composite(flatten(reports), o)

sliceShared(h, ref) == [heap |-> h, ref |-> ref]

\* accept = accept.slice(): the local accept refers to a copy of the list
slice(h, ref) == [heap |-> [h EXCEPT !.copy = h[ref]], ref |-> "copy"]

\* loop(): false when no alternative is left, else the first one is shifted
\* off the list and the validation of a child Field with it is started
loop(h, ref) ==
  IF h[ref] = <<>> THEN [returns |-> Fail, recipe |-> Schema(<<>>), heap |-> h]
  ELSE [returns |-> Pending, recipe |-> Head(h[ref]),
        heap |-> [h EXCEPT ![ref] = Tail(h[ref])]]

thenReportTriesAll(rep, h, ref) ==
  IF h[ref] = <<>> THEN [returns |-> FromBool(~hasIssues(rep)), recipe |-> Schema(<<>>), heap |-> h]
  ELSE loop(h, ref)

\* the `then` callback of an alternative's validation
thenReport(rep, h, ref) ==
  IF ~hasIssues(rep) THEN [returns |-> Pass, recipe |-> Schema(<<>>), heap |-> h]
  ELSE loop(h, ref)

RECURSIVE RunRules(_, _, _, _, _)
RECURSIVE OneOfRun(_, _, _)
RECURSIVE oneOf(_, _)
RECURSIVE RunRule(_, _, _, _, _)
RECURSIVE ApplyValidator(_, _, _)
RECURSIVE FieldValidate(_, _, _)
RECURSIVE properties(_, _)
RECURSIVE items(_, _)

\* Field.validate of a field at path with value v and the recipe of schema
FieldValidate(path, v, schema) == RunRules(path, v, v, <<>>, RecipeTo(schema))

\* the reports of the children, each validated on its own
ReportsOf(children) ==
  [i \in 1..Len(children) |->
     IF children[i].spawn
     THEN FieldValidate(children[i].path, children[i].value, children[i].schema)
     ELSE NullReport]

\* the call once every child has settled
Fan(children, o) ==
  LET reports == ReportsOf(children)
  IN IF promiseAll([i \in 1..Len(reports) |-> Settled(reports[i])]) = "rejected"
     THEN Rejected
     ELSE joined(reports, WriteAll(o, children, reports, 1))

\* properties(accept, value, field)
properties(acc, v) ==
  IF propertiesEarly(v) # Pending THEN propertiesEarly(v)
  ELSE Fan(propertiesKids(acc, v), Plain(NoProps))

\* items(accept, value, field)
items(acc, v) ==
  IF itemsEarly(v) # Pending THEN itemsEarly(v)
  ELSE Fan(itemsKids(acc, v), NewArray(Len(v.items)))

\* the chain of `then` callbacks from one step of the loop on
OneOfRun(step, ref, v) ==
  IF step.returns # Pending THEN step.returns
  ELSE LET rep == FieldValidate(<<>>, v, step.recipe)
       IN IF rep.status = "rejected" THEN Rejected
          ELSE OneOfRun(thenReport(rep, step.heap, ref), ref, v)

\* oneOf(accept, value, field)
oneOf(acc, v) ==
  LET own == slice([caller |-> acc.alts, copy |-> <<>>], "caller")
  IN OneOfRun(loop(own.heap, own.ref), own.ref, v)

\* the validator of the named rule
ApplyValidator(name, acc, v) ==
  CASE name = "type" -> type(acc, v)
    [] name = "required" -> required(acc, v)
    [] name = "length" -> length(acc, v)
    [] name = "minLength" -> minLength(acc, v)
    [] name = "maxLength" -> maxLength(acc, v)
    [] name = "langMap" -> langMap(acc, v)
    [] name = "properties" -> properties(acc, v)
    [] name = "items" -> items(acc, v)
    [] name = "oneOf" -> oneOf(acc, v)

\* one rule of the recipe: the new field value, report value and issues,
\* or the rejection
RunRule(path, fv, rv, issues, r) ==
  IF r.rule \in StoreFilters
  THEN LET w == ApplyFilter(r.rule, r.accept, fv)
       IN IF w = Thrown THEN [rejected |-> TRUE, fv |-> fv, rv |-> rv, issues |-> issues]
          ELSE [rejected |-> FALSE, fv |-> w, rv |-> w, issues |-> issues]
  ELSE IF r.rule \in StoreValidators
  THEN LET o == ApplyValidator(r.rule, r.accept, fv)
       IN IF o.t = "rejected"
          THEN [rejected |-> TRUE, fv |-> fv, rv |-> rv, issues |-> issues]
          ELSE [rejected |-> FALSE, fv |-> fv,
                rv |-> IF o.t = "composite" THEN o.out ELSE rv,
                issues |-> issues \o IssuesOf(path, r.rule, o)]
  ELSE [rejected |-> TRUE, fv |-> fv, rv |-> rv, issues |-> issues]

RunRules(path, fv, rv, issues, rules) ==
  IF rules = <<>> THEN Resolved(rv, issues)
  ELSE LET step == RunRule(path, fv, rv, issues, Head(rules))
       IN IF step.rejected THEN [status |-> "rejected", value |-> Undefined, issues |-> <<>>]
          ELSE RunRules(path, step.fv, step.rv, step.issues, Tail(rules))

(***************************************************************************)
(* SpecRule: one call of one rule of the store on one input.               *)
(***************************************************************************)
RuleIdle ==
  /\ rule = ""
  /\ accept = Undefined
  /\ value = Undefined
  /\ result = Undefined

FieldIdle ==
  /\ fpc = "idle"
  /\ finput = Undefined
  /\ fschema = Schema(<<>>)
  /\ fidx = 0
  /\ fvalue = Undefined
  /\ report = [value |-> Undefined, issues |-> <<>>]

FanIdle ==
  /\ pcall = [rule |-> "", accept |-> Undefined, value |-> Undefined]
  /\ kids = <<>>
  /\ kstatus = <<>>
  /\ kreports = <<>>
  /\ out = Undefined
  /\ pstatus = "idle"
  /\ presult = [t |-> "none"]
  /\ finished = <<>>

OneOfIdle ==
  /\ ocall = [alts |-> <<>>, value |-> Undefined]
  /\ oheap = [caller |-> <<>>, copy |-> <<>>]
  /\ oaccept = "caller"
  /\ ostarted = <<>>
  /\ oinflight = {}
  /\ oreports = <<>>
  /\ ostatus = "idle"
  /\ oresult = [t |-> "none"]

RuleInit == RuleIdle /\ FieldIdle /\ FanIdle /\ OneOfIdle

Call(name, acc, v, res) ==
  /\ rule' = name
  /\ accept' = acc
  /\ value' = v
  /\ result' = res
  /\ UNCHANGED <<fieldVars, fanVars, oneOfVars>>

CallRequired ==
  /\ rule = ""
  /\ \E acc \in {Undefined, Bool(FALSE)} \cup {NameList(q) : q \in SeqsUpTo(Names, MaxNames)} :
       \E v \in Objects \cup Arrays \cup {Null, Undefined, Num(1), Str(<<>>)} :
         Call("required", acc, v, required(acc, v))

CallLength ==
  /\ rule = ""
  /\ \E acc \in 0..(MaxStrLen + 1), v \in Primitives \cup Arrays :
       Call("length", Num(acc), v, length(Num(acc), v))

CallMinLength ==
  /\ rule = ""
  /\ \E acc \in 0..(MaxStrLen + 1), v \in Primitives \cup Arrays :
       Call("minLength", Num(acc), v, minLength(Num(acc), v))

CallMaxLength ==
  /\ rule = ""
  /\ \E acc \in 0..(MaxStrLen + 1), v \in Primitives \cup Arrays :
       Call("maxLength", Num(acc), v, maxLength(Num(acc), v))

CallLangMap ==
  /\ rule = ""
  /\ \E acc \in SeqsUpTo(Langs, MaxNames) :
       \E v \in LangMaps \cup {Null, Undefined, Num(1), Str(<<"a">>)} :
         Call("langMap", NameList(acc), v, langMap(NameList(acc), v))

CallBounds ==
  /\ rule = ""
  /\ \E min \in (0 - 1)..MaxNum, max \in (0 - 1)..MaxNum :
       \E v \in {Num(n) : n \in (0 - 3)..(MaxNum + 2)} \cup Primitives :
         /\ min < max
         /\ Call("bounds", Arr(<<Num(min), Num(max)>>), v,
                 bounds(Arr(<<Num(min), Num(max)>>), v))

CallFilter ==
  /\ rule = ""
  /\ \E name \in FilterNames :
       \E acc \in FilterAccepts(name), v \in Values :
         Call(name, acc, v, ApplyFilter(name, acc, v))

RuleNext ==
  \/ CallRequired
  \/ CallLength
  \/ CallMinLength
  \/ CallMaxLength
  \/ CallLangMap
  \/ CallBounds
  \/ CallFilter

SpecRule == RuleInit /\ [][RuleNext]_vars

(***************************************************************************)
(* SpecField: validate(value, schema), one rule of the recipe at a time.   *)
(***************************************************************************)
IdString == Str(<<"a", "1">>)

\* {type: 'string', toObjectId: true}
IdSchema == Schema(<<Rule("type", Name("string")), Rule("toObjectId", Bool(TRUE))>>)
\* the same rules declared the other way round
IdSchemaReversed == Schema(<<Rule("toObjectId", Bool(TRUE)), Rule("type", Name("string"))>>)

\* the schema of validatePayload
PayloadSchema ==
  Schema(<<Rule("type", Name("object")),
           Rule("required", NameList(<<>>)),
           Rule("properties", PropsOf(<<Prop("_id", IdSchema)>>))>>)

PayloadSchemaReversed ==
  Schema(<<Rule("type", Name("object")),
           Rule("required", NameList(<<>>)),
           Rule("properties", PropsOf(<<Prop("_id", IdSchemaReversed)>>))>>)

FieldSchemas ==
  <<PayloadSchema,
    PayloadSchemaReversed,
    Schema(<<Rule("type", Name("object")),
             Rule("required", NameList(<<"_id">>)),
             Rule("properties",
                  PropsOf(<<Prop("_id", IdSchema),
                            Prop("x", Schema(<<Rule("default", Num(0)),
                                               Rule("bounds", Arr(<<Num(0), Num(2)>>))>>))>>))>>),
    Schema(<<Rule("type", Name("array")),
             Rule("items", Schema(<<Rule("type", Name("string")),
                                    Rule("trim", Bool(TRUE)),
                                    Rule("minLength", Num(1))>>)),
             Rule("uniqueItems", Bool(TRUE))>>),
    Schema(<<Rule("properties",
                  PropsOf(<<Prop("_id", Schema(<<Rule("clearFormField", Bool(TRUE))>>))>>))>>),
    Schema(<<Rule("properties",
                  PropsOf(<<Prop("_id", Schema(<<Rule("acceptEmpty", Bool(TRUE)),
                                                 Rule("type", Name("string"))>>))>>))>>),
    Schema(<<Rule("trim", Bool(TRUE)), Rule("minLength", Num(1)), Rule("toObjectId", Bool(TRUE))>>),
    Schema(<<Rule("oneOf", AltsOf(<<Schema(<<Rule("type", Name("number"))>>), IdSchema>>)),
             Rule("toObjectId", Bool(TRUE))>>),
    Schema(<<>>)>>

IdValues == {IdString, Str(<<"0", "A">>), Str(<<"a">>), Str(<<"-", "1">>), Num(1), Null, Undefined}
FieldInputs ==
  {Obj(own, proto) : own \in Props({"_id", "x"}, IdValues), proto \in Props({"_id"}, {Str(<<>>)})}
    \cup {Arr(q) : q \in SeqsUpTo({Str(<<" ", "a">>), Str(<<" ">>), Num(1)}, 2)}
    \cup {Null, Undefined, Num(1), IdString, Str(<<" ">>)}

\* validate(value, schemaLiteral): a fresh root Field
FieldBegin ==
  /\ fpc = "idle"
  /\ \E v \in FieldInputs, i \in 1..Len(FieldSchemas) :
       /\ finput' = v
       /\ fschema' = FieldSchemas[i]
       /\ fvalue' = v
       /\ report' = [value |-> v, issues |-> <<>>]
  /\ fidx' = 1
  /\ fpc' = "running"
  /\ UNCHANGED <<ruleVars, fanVars, oneOfVars>>

\* the outcome of the next rule of the recipe
FieldStep == RunRule(<<>>, fvalue, report.value, report.issues, RecipeTo(fschema)[fidx])

\* the next rule is a filter: its output replaces the value
FieldFilter ==
  /\ fpc = "running"
  /\ fidx <= Len(RecipeTo(fschema))
  /\ RecipeTo(fschema)[fidx].rule \in StoreFilters
  /\ ~FieldStep.rejected
  /\ fvalue' = FieldStep.fv
  /\ report' = [value |-> FieldStep.rv, issues |-> FieldStep.issues]
  /\ fidx' = fidx + 1
  /\ UNCHANGED <<fpc, finput, fschema, ruleVars, fanVars, oneOfVars>>

\* the next rule is a validator: its outcome is added to the report
FieldCheck ==
  /\ fpc = "running"
  /\ fidx <= Len(RecipeTo(fschema))
  /\ RecipeTo(fschema)[fidx].rule \in StoreValidators
  /\ ~FieldStep.rejected
  /\ fvalue' = FieldStep.fv
  /\ report' = [value |-> FieldStep.rv, issues |-> FieldStep.issues]
  /\ fidx' = fidx + 1
  /\ UNCHANGED <<fpc, finput, fschema, ruleVars, fanVars, oneOfVars>>

\* the next rule raises, or a child of it is rejected
FieldReject ==
  /\ fpc = "running"
  /\ fidx <= Len(RecipeTo(fschema))
  /\ FieldStep.rejected
  /\ fpc' = "rejected"
  /\ UNCHANGED <<finput, fschema, fidx, fvalue, report, ruleVars, fanVars, oneOfVars>>

\* every rule has run: the report is sealed
FieldSeal ==
  /\ fpc = "running"
  /\ fidx > Len(RecipeTo(fschema))
  /\ fpc' = "sealed"
  /\ UNCHANGED <<finput, fschema, fidx, fvalue, report, ruleVars, fanVars, oneOfVars>>

FieldNext ==
  \/ FieldBegin
  \/ FieldFilter
  \/ FieldCheck
  \/ FieldReject
  \/ FieldSeal

SpecField == RuleInit /\ [][FieldNext]_vars

(***************************************************************************)
(* SpecFan: one call of `properties` or `items`; the children complete in  *)
(* any order.                                                              *)
(***************************************************************************)
MaxItems == 2       \* longest array given to `items`

PropSchemas ==
  <<Schema(<<Rule("type", Name("string"))>>),
    Schema(<<Rule("default", Num(0)), Rule("type", Name("number"))>>),
    Schema(<<Rule("default", Producer(Str(<<" ", "a">>))), Rule("trim", Bool(TRUE))>>),
    Schema(<<Rule("acceptEmpty", Bool(TRUE)), Rule("type", Name("string"))>>),
    Schema(<<Rule("clearFormField", Bool(TRUE))>>),
    Schema(<<Rule("type", Name("string")), Rule("minLength", Num(1))>>)>>

\* the `properties` parameters: the declared names, in either order
PropsAccepts ==
  {PropsOf(<<>>)}
    \cup {PropsOf(<<Prop(n, PropSchemas[i])>>) : n \in Names, i \in 1..Len(PropSchemas)}
    \cup {PropsOf(<<Prop("a", PropSchemas[i]), Prop("b", PropSchemas[j])>>) :
            i \in 1..Len(PropSchemas), j \in 1..Len(PropSchemas)}
    \cup {PropsOf(<<Prop("b", PropSchemas[i]), Prop("a", PropSchemas[i])>>) :
            i \in 1..Len(PropSchemas)}

FanObjects ==
  {Obj(own, proto) : own \in Props(Names \cup {"c"}, {Str(<<>>), Num(1), Undefined}),
                     proto \in Props(Names, {Str(<<>>)})}
FanItems == {Str(<<>>), Str(<<" ", "a">>), Num(1)}
FanArrays == {Arr(q) : q \in SeqsUpTo(FanItems, MaxItems)}

Waiting(children) ==
  /\ kids' = children
  /\ kstatus' = [i \in 1..Len(children) |-> IF children[i].spawn THEN "running" ELSE "none"]
  /\ kreports' = [i \in 1..Len(children) |-> NullReport]
  /\ pstatus' = "waiting"
  /\ presult' = Pending

Returned(res) ==
  /\ pstatus' = "returned"
  /\ presult' = res
  /\ UNCHANGED <<kids, kstatus, kreports, out>>

\* properties(accept, value, field) up to `return Promise.all(...)`
CallProperties ==
  /\ pstatus = "idle"
  /\ \E acc \in PropsAccepts, v \in FanObjects \cup {Null, Num(1), Arr(<<>>)} :
       /\ pcall' = [rule |-> "properties", accept |-> acc, value |-> v]
       /\ IF propertiesEarly(v) # Pending THEN Returned(propertiesEarly(v))
          ELSE Waiting(propertiesKids(acc, v)) /\ out' = Plain(NoProps)
  /\ UNCHANGED <<finished, ruleVars, fieldVars, oneOfVars>>

\* items(accept, value, field) up to `return Promise.all(...)`
CallItems ==
  /\ pstatus = "idle"
  /\ \E i \in 1..Len(PropSchemas), v \in FanArrays \cup {Null, Plain(NoProps)} :
       /\ pcall' = [rule |-> "items", accept |-> PropSchemas[i], value |-> v]
       /\ IF itemsEarly(v) # Pending THEN Returned(itemsEarly(v))
          ELSE Waiting(itemsKids(PropSchemas[i], v)) /\ out' = NewArray(Len(v.items))
  /\ UNCHANGED <<finished, ruleVars, fieldVars, oneOfVars>>

\* a child's validate() resolves: the `then` callback writes its value to out
ChildResolve ==
  /\ \E i \in 1..Len(kids) :
       /\ kstatus[i] = "running"
       /\ LET rep == FieldValidate(kids[i].path, kids[i].value, kids[i].schema)
          IN /\ rep.status = "resolved"
             /\ kreports' = [kreports EXCEPT ![i] = rep]
             /\ out' = writeOut(out, kids[i].path[1], rep.value)
       /\ kstatus' = [kstatus EXCEPT ![i] = "done"]
       /\ finished' = Append(finished, i)
  /\ UNCHANGED <<pcall, kids, pstatus, presult, ruleVars, fieldVars, oneOfVars>>

\* a child's validate() is rejected
ChildReject ==
  /\ \E i \in 1..Len(kids) :
       /\ kstatus[i] = "running"
       /\ FieldValidate(kids[i].path, kids[i].value, kids[i].schema).status = "rejected"
       /\ kstatus' = [kstatus EXCEPT ![i] = "failed"]
       /\ finished' = Append(finished, i)
  /\ UNCHANGED <<pcall, kids, kreports, out, pstatus, presult, ruleVars, fieldVars, oneOfVars>>

\* Promise.all is fulfilled: the issues are flattened, out becomes the value
ParentResolve ==
  /\ pstatus = "waiting"
  /\ promiseAll(kstatus) = "fulfilled"
  /\ presult' = joined(kreports, out)
  /\ pstatus' = "resolved"
  /\ UNCHANGED <<pcall, kids, kstatus, kreports, out, finished, ruleVars, fieldVars, oneOfVars>>

\* Promise.all is rejected
ParentReject ==
  /\ pstatus = "waiting"
  /\ promiseAll(kstatus) = "rejected"
  /\ presult' = Rejected
  /\ pstatus' = "rejected"
  /\ UNCHANGED <<pcall, kids, kstatus, kreports, out, finished, ruleVars, fieldVars, oneOfVars>>

FanNext ==
  \/ CallProperties
  \/ CallItems
  \/ ChildResolve
  \/ ChildReject
  \/ ParentResolve
  \/ ParentReject

SpecFan == RuleInit /\ [][FanNext]_vars

(***************************************************************************)
(* SpecOneOf: one call of `oneOf`; each alternative's validation completes *)
(* some time after it was started.                                         *)
(***************************************************************************)
MaxAlts == 2        \* longest list of alternatives given to `oneOf`

OneOfSchemas ==
  {Schema(<<Rule("type", Name("string"))>>),
   Schema(<<Rule("type", Name("number"))>>),
   Schema(<<Rule("type", Name("string")), Rule("minLength", Num(1))>>),
   Schema(<<Rule("clearFormField", Bool(TRUE))>>),
   Schema(<<Rule("trim", Bool(TRUE)), Rule("minLength", Num(2))>>)}
OneOfValues == {Str(<<>>), Str(<<" ", "a">>), Str(<<"a", "1">>), Num(1), Null, Undefined}

\* the state after a step of the loop; done is the validation just reported
Advance(step, done) ==
  /\ oheap' = step.heap
  /\ oresult' = step.returns
  /\ IF step.returns = Pending
     THEN /\ ostarted' = Append(ostarted, step.recipe)
          /\ oinflight' = (oinflight \ done) \cup {Len(ostarted) + 1}
          /\ ostatus' = "awaiting"
     ELSE /\ ostarted' = ostarted
          /\ oinflight' = oinflight \ done
          /\ ostatus' = "settled"

\* oneOf(accept, value, field): the slice and the first call of loop()
CallOneOf ==
  /\ ostatus = "idle"
  /\ \E q \in SeqsUpTo(OneOfSchemas, MaxAlts), v \in OneOfValues :
       LET own == slice([caller |-> q, copy |-> <<>>], "caller")
       IN /\ ocall' = [alts |-> q, value |-> v]
          /\ oaccept' = own.ref
          /\ Advance(loop(own.heap, own.ref), {})
  /\ UNCHANGED <<oreports, ruleVars, fieldVars, fanVars>>

\* the validation of an alternative resolves: its report is known and the
\* `then` callback runs
AltResolve ==
  /\ \E i \in oinflight :
       LET rep == FieldValidate(<<>>, ocall.value, ostarted[i])
       IN /\ rep.status = "resolved"
          /\ oreports' = Append(oreports, rep)
          /\ Advance(thenReport(rep, oheap, oaccept), {i})
  /\ UNCHANGED <<ocall, oaccept, ruleVars, fieldVars, fanVars>>

\* the validation of an alternative is rejected, and the rule with it
AltReject ==
  /\ \E i \in oinflight :
       /\ FieldValidate(<<>>, ocall.value, ostarted[i]).status = "rejected"
       /\ oinflight' = oinflight \ {i}
  /\ ostatus' = "rejected"
  /\ oresult' = Rejected
  /\ UNCHANGED <<ocall, oheap, oaccept, ostarted, oreports, ruleVars, fieldVars, fanVars>>

OneOfNext ==
  \/ CallOneOf
  \/ AltResolve
  \/ AltReject

SpecOneOf == RuleInit /\ [][OneOfNext]_vars

(***************************************************************************)
(* Properties of single rule calls (SpecRule).                             *)
(***************************************************************************)
\* the listed names that are not own keys of v, or whose value is '' or null
MissingNames(names, v) ==
  SelectSeq(names, LAMBDA n : ~Has(v, n) \/ Get(v, n) = Str(<<>>) \/ Get(v, n) = Null)

\* C4: on a non-null object value `required` returns exactly one issue per
\* listed name that is absent, '' or null, in the order listed, with path the
\* name, accept true and current false, and no other issue; on null it passes.
C4_RequiredIssues ==
  rule = "required" /\ ~Falsy(accept) =>
    /\ value = Null => result = Pass
    /\ isObject(value) /\ value # Null =>
         /\ result.t = "issues"
         /\ Len(result.list) = Len(MissingNames(accept.names, value))
         /\ \A i \in 1..Len(result.list) :
              /\ result.list[i].path = Name(MissingNames(accept.names, value)[i])
              /\ result.list[i].accept = TRUE
              /\ result.list[i].current = FALSE

\* required: ["a"] on {} yields exactly one issue, with path "a"
C4_Witness ==
  /\ rule = "required"
  /\ accept = NameList(<<"a">>)
  /\ value = Plain(NoProps)
  /\ result = IssueList(<<Missed("a")>>)

\* the comparison each length rule makes
LengthCompare(name, n, acc) ==
  CASE name = "length" -> n = acc
    [] name = "minLength" -> n >= acc
    [] name = "maxLength" -> n <= acc

\* C5: on a string, length, minLength and maxLength each compare the accepted
\* number with the length of the trimmed value; on an array, with its length.
C5_TrimmedLength ==
  rule \in {"length", "minLength", "maxLength"} =>
    /\ value.k = "string" =>
         result = FromBool(LengthCompare(rule, Len(Trim(value.s)), accept.n))
    /\ value.k = "array" =>
         result = FromBool(LengthCompare(rule, Len(value.items), accept.n))

\* C6: every filter returns a defined value for every defined input.
C6_FiltersReturnDefined ==
  rule \in FilterNames \cup {"bounds"} /\ value # Undefined => result # Undefined

\* C7 as stated: for min < max and a numeric value, bounds returns v with
\* min <= v < max, and the input itself when it lies in [min, max).
C7_BoundsHalfOpen ==
  rule = "bounds" /\ value.k = "number" =>
    /\ result.k = "number"
    /\ accept.items[1].n <= result.n /\ result.n < accept.items[2].n
    /\ (accept.items[1].n <= value.n /\ value.n < accept.items[2].n => result = value)

\* C7 amended: for min < max and a numeric value, bounds returns v with
\* min <= v <= max (a value at or above max becomes max), and the input
\* itself when it lies in [min, max).
C7_BoundsClosed ==
  rule = "bounds" /\ value.k = "number" =>
    /\ result.k = "number"
    /\ accept.items[1].n <= result.n /\ result.n <= accept.items[2].n
    /\ (accept.items[1].n <= value.n /\ value.n < accept.items[2].n => result = value)
    /\ (value.n >= accept.items[2].n => result.n = accept.items[2].n)

\* a value above max and a value below min are both clamped
C7_Witness ==
  /\ rule = "bounds"
  /\ value.k = "number"
  /\ value.n > accept.items[2].n
  /\ result = accept.items[2]

\* C8: on an object, langMap passes only if every key is an allowed language
\* or `default`; on a value that is not an object it passes.
C8_LangMapEveryKey ==
  rule = "langMap" =>
    /\ value.k = "object" /\ result = Pass =>
         \A key \in Keys(value) : key \in Range(accept.names) \cup {"default"}
    /\ ~LodashIsObject(value) => result = Pass

(***************************************************************************)
(* Properties of validate() (SpecField).                                   *)
(***************************************************************************)
\* C1: for every object whose own _id is a string the identifier
\* collaborator accepts, validate(value, PayloadSchema) seals a report with
\* no issue whose value holds the identifier derived from that string under
\* _id; with the rules of the _id recipe declared the other way round,
\* `type: 'string'` judges the identifier and reports one issue at _id.
C1_PayloadObjectId ==
  /\ fpc = "sealed" /\ finput.k = "object" /\ Has(finput, "_id")
     /\ Get(finput, "_id").k = "string" /\ isValidId(Get(finput, "_id")) =>
       /\ fschema = PayloadSchema =>
            /\ report.issues = <<>>
            /\ report.value = Plain([n \in {"_id"} |-> toId(Get(finput, "_id"))])
       /\ fschema = PayloadSchemaReversed =>
            /\ Len(report.issues) = 1
            /\ report.issues[1].rule = "type"
            /\ report.issues[1].path = Arr(<<Name("_id")>>)
  /\ fschema = PayloadSchema => fpc # "rejected"

\* validate({_id: <id string>}, PayloadSchema) has sealed its report
C1_Witness ==
  /\ fpc = "sealed"
  /\ fschema = PayloadSchema
  /\ finput = Plain([n \in {"_id"} |-> IdString])
  /\ report = [value |-> Plain([n \in {"_id"} |-> toId(IdString)]), issues |-> <<>>]

(***************************************************************************)
(* Properties of `properties` and `items` (SpecFan).                       *)
(***************************************************************************)
\* the names `properties` declares, and the schema of one
Declared == {pcall.accept.props[i].name : i \in 1..Len(pcall.accept.props)}
SchemaOf(n) ==
  pcall.accept.props[CHOOSE i \in 1..Len(pcall.accept.props) :
                       pcall.accept.props[i].name = n].schema
\* the names a child Field was made for
Spawned == {kids[i].path[1].name : i \in {j \in 1..Len(kids) : kids[j].spawn}}
Fanned == pstatus \in {"waiting", "resolved", "rejected"}

RECURSIVE IssuesInOrder(_, _)
\* the issues of the children from i on, each child validated on its own
IssuesInOrder(children, i) ==
  IF i > Len(children) THEN <<>>
  ELSE (IF children[i].spawn
        THEN FieldValidate(children[i].path, children[i].value, children[i].schema).issues
        ELSE <<>>) \o IssuesInOrder(children, i + 1)

\* C9: every child is started by the call itself; the call resolves only
\* after every child has completed, and then, whatever the order of
\* completion, out holds each child's own report value at its index or under
\* its name and the issues are the children's issues in declaration/index order.
C9_FanIn ==
  /\ Fanned => \A i \in 1..Len(kids) : kids[i].spawn <=> kstatus[i] # "none"
  /\ pstatus = "resolved" =>
       /\ \A i \in 1..Len(kids) : kstatus[i] \in {"none", "done"}
       /\ presult.t = "composite"
       /\ presult.out = out
       /\ presult.list = IssuesInOrder(kids, 1)
       /\ \A i \in 1..Len(kids) :
            kids[i].spawn =>
              LET own == FieldValidate(kids[i].path, kids[i].value, kids[i].schema).value
              IN IF pcall.rule = "items" THEN out.items[i] = own
                 ELSE Has(out, kids[i].path[1].name) /\ Get(out, kids[i].path[1].name) = own
       /\ pcall.rule = "items" => Len(out.items) = Len(pcall.value.items)

\* two children with issues completed last-first and the call resolved
C9_Witness ==
  /\ pstatus = "resolved"
  /\ finished = <<2, 1>>
  /\ hasIssues(kreports[1])
  /\ hasIssues(kreports[2])
  /\ presult.list = kreports[1].issues \o kreports[2].issues

(***************************************************************************)
(* Properties of `oneOf` (SpecOneOf).                                      *)
(***************************************************************************)
\* alternative i of the call yields a report with no issue
Clean(i) ==
  LET rep == FieldValidate(<<>>, ocall.value, ocall.alts[i])
  IN rep.status = "resolved" /\ ~hasIssues(rep)

\* the issues the field that runs the rule adds for its outcome
OneOfIssues == IssuesOf(<<>>, "oneOf", oresult)

\* C2: once the rule has its outcome, it passes if and only if some
\* alternative yields a report with no issue; otherwise (the empty list
\* included) the outcome is the plain false, which makes exactly one issue,
\* of the rule oneOf, and none of the alternatives' issues.
C2_OneOfOutcome ==
  ostatus = "settled" =>
    /\ oresult \in {Pass, Fail}
    /\ oresult = Pass <=> \E i \in 1..Len(ocall.alts) : Clean(i)
    /\ oresult = Pass => OneOfIssues = <<>>
    /\ oresult = Fail =>
         OneOfIssues = <<[path |-> Arr(<<>>), rule |-> "oneOf", detail |-> Undefined]>>

\* two alternatives were tried, both reports had issues, the rule failed
C2_Witness ==
  /\ ostatus = "settled"
  /\ Len(ocall.alts) = 2
  /\ Len(oreports) = 2
  /\ hasIssues(oreports[1]) /\ hasIssues(oreports[2])
  /\ oresult = Fail
  /\ Len(OneOfIssues) = 1

\* C10: the alternatives are started in declared order, one at a time: the
\* next one only when the report of the previous one is known, at most one
\* in flight, none after a report with no issue; the caller's list is left
\* as it was.
C10_OneAtATime ==
  /\ Cardinality(oinflight) <= 1
  /\ Len(ostarted) <= Len(ocall.alts)
  /\ ostarted = SubSeq(ocall.alts, 1, Len(ostarted))
  /\ Len(ostarted) <= Len(oreports) + 1
  /\ oinflight # {} => Len(ostarted) = Len(oreports) + 1 /\ oinflight = {Len(ostarted)}
  /\ \A i \in 1..Len(oreports) : ~hasIssues(oreports[i]) => Len(ostarted) = i
  /\ oheap.caller = ocall.alts

\* the first alternative had issues, the second was then started and its
\* clean report ended the loop
C10_Witness ==
  /\ ostatus = "settled"
  /\ Len(ocall.alts) = 2
  /\ Len(ostarted) = 2
  /\ hasIssues(oreports[1])
  /\ ~hasIssues(oreports[2])
  /\ oresult = Pass
  /\ oheap.copy = <<>>

====
